---- MODULE Spec2Model ----
(***************************************************************************)
(* Model of the Marqo ingestion scripts (scripts/load_documents_to_marqo.py *)
(* and scripts/load_obsidian_to_marqo.py), of MarqoClient                   *)
(* (retrieval/vector/dbs/marqo.py) and of MarqoLoader                       *)
(* (vectordb/marqo_loader.py).                                              *)
(*                                                                         *)
(* Strings are sequences of one-character strings where the code works on  *)
(* characters (chunk_text), and sequences of tokens where it works on path *)
(* components (file ids).                                                  *)
(***************************************************************************)
EXTENDS Integers, Sequences, FiniteSets, TLC

VARIABLES
    \* ---- chunk_text (both scripts): its arguments and its locals
    text, chunk_size, chunk_overlap, start, chunks, windows, cpc,
    \* ---- an ingestion run (main of either script): what lies at the root
    \* path, and the invocation
    root, pipeline, fs, exclude_dirs, recreate, pdf_reader_available,
    docx_reader_available,
    \* process_directory / process_vault: the pending directories of os.walk,
    \* the directories already yielded, and the records collected
    walk_stack, visited, all_documents,
    \* main: control position, the locals collection_exists and i, whether
    \* "Successfully added" was logged, and the exception that ended the run
    pc, collection_exists, batch_i, reported, error,
    \* the backend: the calls of this run, and the target index
    calls, index_exists, index_docs,
    \* the runs: the number of the current one, and what earlier ones left
    run, runs,
    \* (history) the batches handed to add_documents in this run
    submitted,
    \* ---- MarqoClient.search: arguments, control position, the loop index,
    \* the locals, whether an exception is propagating, the return value
    vectors, limit, spc, qi, temp_collection_name, raising,
    ids, distances, documents, metadatas, result,
    \* the backend of the search: the indexes that exist, what a search of the
    \* target index answers, the calls made, and (history) the proxy indexes
    \* this call created and the queries whose processing raised
    indexes, target_hits, bcalls, created, qfailed,
    \* ---- the operations of MarqoClient and MarqoLoader: the backend's
    \* indexes with their documents, and what the last operation did
    backend, last,
    \* ---- the pre-processing of one vault note by process_file: the note
    \* as read, the local `content`, and the step that comes next
    note, content, npc,
    \* ---- concurrent MarqoClient.search calls on one backend, one query
    \* vector each: per call the control position, the proxy name, whether
    \* its create_index succeeded, whether an exception is propagating and
    \* what it returned; and the indexes of the shared backend
    tpc, tname, tcreated, traising, tresult, shared,
    \* ---- concurrent ingestion runs on one existing collection, from the
    \* existence probe on: per run its record list, control position and
    \* loop index i; the records of the collection; and (history) the
    \* batches the backend applied, in order
    w_documents, w_pc, w_batch_i, coll_docs, coll_log

chunkVars == <<text, start, chunks, windows, cpc>>
paramVars == <<chunk_size, chunk_overlap>>
ingestVars == <<root, pipeline, fs, exclude_dirs, recreate, pdf_reader_available,
                docx_reader_available, walk_stack, visited, all_documents,
                pc, collection_exists, batch_i, reported, error,
                calls, index_exists, index_docs, run, runs, submitted>>

searchVars == <<vectors, limit, spc, qi, temp_collection_name, raising,
                ids, distances, documents, metadatas, result,
                indexes, target_hits, bcalls, created, qfailed>>

clientVars == <<backend, last>>

noteVars == <<note, content, npc>>

concVars == <<tpc, tname, tcreated, traising, tresult, shared>>

writeVars == <<w_documents, w_pc, w_batch_i, coll_docs, coll_log>>

vars == <<chunkVars, paramVars, ingestVars, searchVars, clientVars, noteVars,
          concVars, writeVars>>

(***************************************************************************)
(* Bounds of the chunker check                                             *)
(***************************************************************************)
MaxLen == 6
MaxChunks == 8

\* the characters a text is drawn from: a letter, the space, the period and
\* the newline (the only characters chunk_text distinguishes)
Alphabet == {"a", " ", ".", "\n"}
ChunkSizes == {1, 2, 3, 5}

Min(a, b) == IF a < b THEN a ELSE b
Max(a, b) == IF a > b THEN a ELSE b

Texts(n) == UNION {[1..k -> Alphabet] : k \in 0..n}

(***************************************************************************)
(* Python string primitives                                                *)
(***************************************************************************)
\* a slice bound as Python normalises it: negative counts from the end,
\* everything is clamped to [0, n]
PyIdx(i, n) == IF i < 0 THEN Max(i + n, 0) ELSE Min(i, n)

\* s[i:j] (0-based, half-open)
Slice(s, i, j) ==
    LET a == PyIdx(i, Len(s))
        b == PyIdx(j, Len(s))
    IN  IF a >= b THEN <<>> ELSE SubSeq(s, a + 1, b)

\* s.rfind(sub, i, j): the highest 0-based index in s[i:j] where sub starts
\* and lies wholly inside the slice, or -1
RFind(s, sub, i, j) ==
    LET a == PyIdx(i, Len(s))
        b == PyIdx(j, Len(s))
        hits == {k \in a..(b - Len(sub)) : SubSeq(s, k + 1, k + Len(sub)) = sub}
    IN  IF hits = {} THEN -1 ELSE CHOOSE k \in hits : \A m \in hits : m <= k

IsSpace(c) == c \in {" ", "\n"}

RECURSIVE LStrip(_)
LStrip(s) == IF s # <<>> /\ IsSpace(Head(s)) THEN LStrip(Tail(s)) ELSE s

RECURSIVE RStrip(_)
RStrip(s) ==
    IF s # <<>> /\ IsSpace(s[Len(s)]) THEN RStrip(SubSeq(s, 1, Len(s) - 1)) ELSE s

\* str.strip()
Strip(s) == RStrip(LStrip(s))

(***************************************************************************)
(* chunk_text: one iteration of the boundary-aware loop                    *)
(***************************************************************************)
PARAGRAPH == <<"\n", "\n">>
SENTENCE == <<".", " ">>
SPACE == <<" ">>

\* the window end of the iteration that starts at st
WindowEnd(t, cs, st) ==
    LET raw == st + cs
        mid == st + (cs \div 2)
        pb == RFind(t, PARAGRAPH, st, raw)
        sb == RFind(t, SENTENCE, st, raw)
        sp == RFind(t, SPACE, st, raw)
    IN  IF raw < Len(t)
        THEN IF pb # -1 /\ pb > mid THEN pb
             ELSE IF sb # -1 /\ sb > mid THEN sb + 1
             ELSE IF sp # -1 /\ sp > mid THEN sp
             ELSE raw
        ELSE raw

\* the start of the next window
NextStartGap(t, ov, end) == IF end < Len(t) THEN end - ov + 1 ELSE Len(t)

NextStart(t, ov, end) == IF end < Len(t) THEN end - ov ELSE Len(t)

ChunkOfWide(t, st, end) == Strip(Slice(t, st, end + 1))

\* the chunk appended for the window [st, end)
ChunkOf(t, st, end) == Strip(Slice(t, st, end))

(***************************************************************************)
(* chunk_text as a state machine                                           *)
(***************************************************************************)
IngestIdle ==
    /\ root = "none"
    /\ pipeline = "none" /\ fs = <<>> /\ exclude_dirs = {} /\ recreate = FALSE
    /\ pdf_reader_available = FALSE /\ docx_reader_available = FALSE
    /\ walk_stack = <<>> /\ visited = <<>> /\ all_documents = <<>>
    /\ pc = "idle" /\ collection_exists = FALSE /\ batch_i = 0
    /\ reported = FALSE /\ error = "none"
    /\ calls = <<>> /\ index_exists = FALSE /\ index_docs = {}
    /\ run = 0 /\ runs = <<>> /\ submitted = <<>>

NoResult == [is_none |-> TRUE, ids |-> <<>>, distances |-> <<>>,
             documents |-> <<>>, metadatas |-> <<>>]

SearchIdle ==
    /\ vectors = <<>> /\ limit = <<>> /\ spc = "idle" /\ qi = 0
    /\ temp_collection_name = "" /\ raising = FALSE
    /\ ids = <<>> /\ distances = <<>> /\ documents = <<>> /\ metadatas = <<>>
    /\ result = NoResult
    /\ indexes = {} /\ target_hits = <<>> /\ bcalls = <<>>
    /\ created = {} /\ qfailed = {}

\* no operation called yet
NoCall == [client |-> "none", op |-> "none", backend_failed |-> FALSE,
           raised |-> FALSE, ret |-> [kind |-> "none", ids |-> <<>>]]

ClientIdle == backend = <<>> /\ last = NoCall

NoteIdle == note = <<>> /\ content = <<>> /\ npc = "idle"

ConcIdle ==
    /\ tpc = <<>> /\ tname = <<>> /\ tcreated = <<>> /\ traising = <<>>
    /\ tresult = <<>> /\ shared = {}

WriteIdle ==
    /\ w_documents = <<>> /\ w_pc = <<>> /\ w_batch_i = <<>>
    /\ coll_docs = {} /\ coll_log = <<>>

ChunkInit ==
    /\ IngestIdle
    /\ SearchIdle
    /\ ClientIdle
    /\ NoteIdle
    /\ ConcIdle
    /\ WriteIdle
    /\ text \in Texts(MaxLen)
    /\ chunk_size \in ChunkSizes
    /\ chunk_overlap \in 0..(chunk_size - 1)
    /\ start = 0
    /\ chunks = <<>>
    /\ windows = <<>>
    /\ cpc = "entry"

\* if len(text) <= chunk_size: return [text]
ChunkShort ==
    /\ cpc = "entry"
    /\ Len(text) <= chunk_size
    /\ chunks' = <<text>>
    /\ windows' = <<[start |-> 0, end |-> Len(text)]>>
    /\ cpc' = "done"
    /\ UNCHANGED <<text, chunk_size, chunk_overlap, start>>

ChunkEnter ==
    /\ cpc = "entry"
    /\ Len(text) > chunk_size
    /\ cpc' = "loop"
    /\ UNCHANGED <<text, chunk_size, chunk_overlap, start, chunks, windows>>

\* one iteration of `while start < len(text)`
ChunkStep ==
    /\ cpc = "loop"
    /\ start < Len(text)
    /\ Len(chunks) < MaxChunks
    /\ LET end == WindowEnd(text, chunk_size, start)
       IN  /\ chunks' = Append(chunks, ChunkOf(text, start, end))
           /\ windows' = Append(windows, [start |-> start, end |-> end])
           /\ start' = NextStart(text, chunk_overlap, end)
    /\ UNCHANGED <<text, chunk_size, chunk_overlap, cpc>>

\* the loop condition fails: return chunks
ChunkReturn ==
    /\ cpc = "loop"
    /\ start >= Len(text)
    /\ cpc' = "done"
    /\ UNCHANGED <<text, chunk_size, chunk_overlap, start, chunks, windows>>

ChunkNext ==
    /\ ChunkShort \/ ChunkEnter \/ ChunkStep \/ ChunkReturn
    /\ UNCHANGED <<ingestVars, searchVars, clientVars, noteVars,
                 concVars, writeVars>>

SpecChunk == ChunkInit /\ [][ChunkNext]_vars

(***************************************************************************)
(* Claims about chunk_text                                                 *)
(***************************************************************************)
WindowText(i) == Slice(text, windows[i].start, windows[i].end)

\* C2: every iteration of the boundary-aware loop moves the window start
\* strictly forward (so the loop terminates after a bounded number of
\* chunks), for every text and every 0 <= chunk_overlap < chunk_size.
C2_ForwardProgress == [][ChunkStep => start' > start]_vars

\* every string obtained by concatenating cs in order, where each chunk may
\* share a (possibly empty) prefix with the end of what precedes it
RECURSIVE Merges(_)
Merges(cs) ==
    IF Len(cs) = 0 THEN {<<>>}
    ELSE IF Len(cs) = 1 THEN {cs[1]}
    ELSE LET c == cs[Len(cs)]
         IN  {m \o SubSeq(c, k + 1, Len(c)) :
                 <<m, k>> \in {<<m2, k2>> \in Merges(SubSeq(cs, 1, Len(cs) - 1)) \X (0..Len(c)) :
                                  /\ k2 <= Len(m2)
                                  /\ SubSeq(m2, Len(m2) - k2 + 1, Len(m2)) = SubSeq(c, 1, k2)}}

TrimmedOf(c, w) ==
    \E a \in 0..Len(w) : \E b \in 0..(Len(w) - a) :
        /\ c = SubSeq(w, a + 1, Len(w) - b)
        /\ \A k \in 1..a : IsSpace(w[k])
        /\ \A k \in (Len(w) - b + 1)..Len(w) : IsSpace(w[k])

\* the untrimmed windows 1..n concatenated, the overlap of each window with
\* its predecessor counted once
RECURSIVE MergeWindows(_)
MergeWindows(n) ==
    IF n = 0 THEN <<>>
    ELSE IF n = 1 THEN WindowText(1)
    ELSE LET d == windows[n - 1].end - windows[n].start
         IN  IF d < 0 \/ d > Len(WindowText(n))
             THEN MergeWindows(n - 1) \o <<"(gap)">> \o WindowText(n)
             ELSE MergeWindows(n - 1) \o SubSeq(WindowText(n), d + 1, Len(WindowText(n)))

C12_ShortTextOneTrimmedChunk ==
    (cpc = "done" /\ Len(text) <= chunk_size) => chunks = <<Strip(text)>>

\* the indexes k of the window [st, st + chunk_size) at which `sub` lies
\* wholly inside the window and strictly after the window's midpoint
BreaksPastMidpoint(sub, st) ==
    {k \in st..(st + chunk_size - Len(sub)) :
        /\ k >= 0
        /\ k + Len(sub) <= Len(text)
        /\ SubSeq(text, k + 1, k + Len(sub)) = sub
        /\ 2 * k > 2 * st + chunk_size}

Last(S) == CHOOSE k \in S : \A m \in S : m <= k

\* C13: in every window that does not reach the end of the text the end is
\* the last paragraph break past the midpoint; else one past the last
\* sentence break past the midpoint; else the last space past the midpoint;
\* else start + chunk_size; and the next window starts at end - chunk_overlap.
C13_BoundaryPriority ==
    \A i \in 1..Len(windows) :
        LET st == windows[i].start
            pbs == BreaksPastMidpoint(PARAGRAPH, st)
            sbs == BreaksPastMidpoint(SENTENCE, st)
            sps == BreaksPastMidpoint(SPACE, st)
        IN  st + chunk_size < Len(text) =>
                /\ windows[i].end = IF pbs # {} THEN Last(pbs)
                                    ELSE IF sbs # {} THEN Last(sbs) + 1
                                    ELSE IF sps # {} THEN Last(sps)
                                    ELSE st + chunk_size
                /\ i < Len(windows) => windows[i + 1].start = windows[i].end - chunk_overlap

\* C28: every chunk the boundary-aware loop emits (the text is longer than
\* chunk_size) has at most chunk_size characters.
C28_ChunkLengthBounded ==
    Len(text) > chunk_size =>
        \A i \in 1..Len(chunks) : Len(chunks[i]) <= chunk_size

\* C28 witness: the loop has returned and some chunk has the full length
\* chunk_size
C28_Witness ==
    /\ cpc = "done"
    /\ Len(text) > chunk_size
    /\ chunk_size > 1
    /\ \E i \in 1..Len(chunks) : Len(chunks[i]) = chunk_size

\* C29: in the loop the first window starts at 0, every further window
\* starts at or before the end of its predecessor, the loop returns only
\* after a window that ends at or past len(text), and then every character
\* index of the text lies in some window [start, end).
C29_WindowsLeaveNoGap ==
    Len(text) > chunk_size =>
        /\ windows # <<>> => windows[1].start = 0
        /\ \A i \in 1..(Len(windows) - 1) : windows[i + 1].start <= windows[i].end
        /\ cpc = "done" =>
              /\ windows # <<>>
              /\ windows[Len(windows)].end >= Len(text)
              /\ \A k \in 0..(Len(text) - 1) :
                    \E i \in 1..Len(windows) :
                        windows[i].start <= k /\ k < windows[i].end

\* C29 witness: the loop has returned after three or more windows, one of
\* which was cut at a boundary before start + chunk_size
C29_Witness ==
    /\ cpc = "done"
    /\ Len(windows) >= 3
    /\ \E i \in 1..Len(windows) :
          windows[i].end < windows[i].start + chunk_size

(***************************************************************************)
(* chunk_text as a function (the fallback chunker of the documents script, *)
(* the only chunker of the vault script), as process_file calls it         *)
(***************************************************************************)
RECURSIVE ChunkLoop(_, _, _, _, _)
ChunkLoop(t, cs, ov, st, acc) ==
    IF st >= Len(t) THEN acc
    ELSE LET end == WindowEnd(t, cs, st)
         IN  ChunkLoop(t, cs, ov, NextStart(t, ov, end), Append(acc, ChunkOf(t, st, end)))

ChunkText(t, cs, ov) == IF Len(t) <= cs THEN <<t>> ELSE ChunkLoop(t, cs, ov, 0, <<>>)

(***************************************************************************)
(* The ingestion runs: bounds, program constants, and the inputs tried     *)
(***************************************************************************)
MaxFiles == 2
MaxRuns == 2

\* main: batch_size = 50
batch_size == 50

\* (chunk_size, chunk_overlap) of the runs; the loop terminates for both
IngestParams == {<<1, 0>>, <<4, 1>>}

\* the contents a file may have, by name: "locked" cannot be opened,
\* "latin" holds bytes that are not valid utf-8, "binary" bytes that are
\* neither valid utf-8 nor defined in cp1252
ShortText == <<"a", "a", " ", "a", "a", " ", "a">>
OtherText == <<"a", ".", " ", "a">>
LatinText == <<"a">>
BinaryText == <<"a", "a">>
LongText == [i \in 1..(batch_size + 1) |-> "a"]

\* the files a tree may hold (in directory-listing order), each with the
\* contents tried for it; a path is the sequence of its directory names
Candidates == <<
    [dir |-> <<>>, name |-> <<"a", ".md">>,
     kinds |-> {"empty", "short", "locked", "binary"}],
    [dir |-> <<>>, name |-> <<"b", ".pdf">>, kinds |-> {"pdf"}],
    [dir |-> <<>>, name |-> <<"big", ".md">>, kinds |-> {"long"}],
    [dir |-> <<>>, name |-> <<"d", "_", "a", ".md">>, kinds |-> {"short"}],
    [dir |-> <<".git">>, name |-> <<"a", ".md">>, kinds |-> {"short"}],
    [dir |-> <<".git", "d">>, name |-> <<"a", ".md">>, kinds |-> {"short"}],
    [dir |-> <<"d">>, name |-> <<"a", ".md">>, kinds |-> {"short", "other", "latin"}],
    [dir |-> <<"d", ".git">>, name |-> <<"a", ".md">>, kinds |-> {"short"}],
    [dir |-> <<>>, name |-> <<"c", ".doc">>, kinds |-> {"short"}],
    [dir |-> <<>>, name |-> <<"e", ".docx">>, kinds |-> {"docx"}] >>

DirNameOrder == <<".git", "d">>
ExcludeLists == {{".git"}, {"d"}}

Kinds == UNION {Candidates[k].kinds : k \in 1..Len(Candidates)}

\* the trees tried: at most MaxFiles files; the long file (more than
\* batch_size chunks) is tried alone and beside d/a.md
FileSystems ==
    UNION {
        {[k \in 1..Len(Candidates) |-> IF k \in S THEN g[k] ELSE "absent"] :
            g \in {h \in [S -> Kinds] : \A k \in S : h[k] \in Candidates[k].kinds}} :
        S \in {T \in SUBSET (1..Len(Candidates)) :
                  /\ Cardinality(T) <= MaxFiles
                  /\ (\E k \in T : "long" \in Candidates[k].kinds) =>
                        \A k \in T : "long" \in Candidates[k].kinds
                                     \/ Candidates[k].dir = <<"d">>}}

Present(k) == fs[k] # "absent"

IsPrefix(p, q) == Len(p) <= Len(q) /\ SubSeq(q, 1, Len(p)) = p

RECURSIVE SelectIdx(_, _, _)
\* the indices k of 1..n with P[k], ascending, as a sequence
SelectIdx(P, k, n) ==
    IF k > n THEN <<>>
    ELSE IF P[k] THEN <<k>> \o SelectIdx(P, k + 1, n) ELSE SelectIdx(P, k + 1, n)

RECURSIVE Flatten(_)
Flatten(ss) == IF ss = <<>> THEN <<>> ELSE Head(ss) \o Flatten(Tail(ss))

\* os.walk: the sub-directory names and the file names of directory D
DirsIn(D) ==
    LET has == [i \in 1..Len(DirNameOrder) |->
                   \E k \in 1..Len(Candidates) :
                       Present(k) /\ IsPrefix(D \o <<DirNameOrder[i]>>, Candidates[k].dir)]
        idx == SelectIdx(has, 1, Len(DirNameOrder))
    IN  [j \in 1..Len(idx) |-> DirNameOrder[idx[j]]]

FilesIn(D) ==
    SelectIdx([k \in 1..Len(Candidates) |-> Present(k) /\ Candidates[k].dir = D],
              1, Len(Candidates))

(***************************************************************************)
(* Reading a file                                                          *)
(***************************************************************************)
\* open(file_path) raises
OpenRaises(k) == fs[k] = "locked"

\* decoding the bytes as utf-8 raises UnicodeDecodeError
Utf8Raises(k) == fs[k] \in {"latin", "binary"}

\* the decoded text of the file (utf-8 where it decodes, else latin-1)
DecodedText(k) ==
    CASE fs[k] = "empty" -> <<>>
      [] fs[k] = "short" -> ShortText
      [] fs[k] = "other" -> OtherText
      [] fs[k] = "long" -> LongText
      [] fs[k] = "latin" -> LatinText
      [] fs[k] = "binary" -> BinaryText
      [] OTHER -> <<>>

\* calculate_file_hash: sha256 of the bytes, which differ exactly when the
\* contents differ; hexdigest as one token
CalculateFileHashNonce(k) == <<"sha256(" \o fs[k] \o ")@" \o ToString(run)>>

CalculateFileHash(k) == <<"sha256(" \o fs[k] \o ")">>

Suffix(k) == Candidates[k].name[Len(Candidates[k].name)]

\* extract_text_from_pdf: one page, whose text is ShortText
ExtractTextFromPdf(k) ==
    IF ~pdf_reader_available THEN <<>> ELSE ShortText \o <<"\n", "\n">>

\* extract_text_from_docx: one paragraph, whose text is OtherText
ExtractTextFromDocx(k) ==
    IF ~docx_reader_available THEN <<>> ELSE OtherText \o <<"\n">>

TEXT_SUFFIXES == {".txt", ".md", ".html", ".htm", ".csv", ".json", ".rtf"}

\* encodings = ['utf-8', 'latin-1', 'cp1252']
ENCODINGS == <<"utf-8", "latin-1", "cp1252">>

\* open(..., encoding=enc).read() raises UnicodeDecodeError: utf-8 on bytes
\* that are not utf-8, cp1252 on its undefined bytes, latin-1 on none
DecodeRaises(enc, k) ==
    \/ enc = "utf-8" /\ Utf8Raises(k)
    \/ enc = "cp1252" /\ fs[k] = "binary"

\* the index of the first encoding that decodes the file, 0 if none does
FirstEncoding(k) ==
    LET ok == {e \in 1..Len(ENCODINGS) : ~DecodeRaises(ENCODINGS[e], k)}
    IN  IF ok = {} THEN 0 ELSE CHOOSE e \in ok : \A f \in ok : e <= f

\* extract_text_from_file with every other extension read as text
ExtractTextFromFileLenient(k) ==
    IF Suffix(k) = ".pdf" THEN ExtractTextFromPdf(k)
    ELSE IF Suffix(k) = ".docx" THEN ExtractTextFromDocx(k)
    ELSE IF OpenRaises(k) \/ FirstEncoding(k) = 0 THEN <<>> ELSE DecodedText(k)

\* extract_text_from_file: never raises
ExtractTextFromFile(k) ==
    IF Suffix(k) = ".pdf" THEN ExtractTextFromPdf(k)
    ELSE IF Suffix(k) = ".docx" THEN ExtractTextFromDocx(k)
    ELSE IF Suffix(k) \in TEXT_SUFFIXES
         THEN IF OpenRaises(k) \/ FirstEncoding(k) = 0 THEN <<>> ELSE DecodedText(k)
    ELSE <<>>

(***************************************************************************)
(* process_file                                                            *)
(***************************************************************************)
RECURSIVE JoinPath(_)
JoinPath(D) == IF D = <<>> THEN <<>> ELSE <<Head(D), "/">> \o JoinPath(Tail(D))

\* str(file_path.relative_to(root)), as tokens
RelPath(k) == JoinPath(Candidates[k].dir) \o Candidates[k].name

\* s.replace(old, new) on tokens
Replace(s, old, new) == [i \in 1..Len(s) |-> IF s[i] = old THEN new ELSE s[i]]

\* vault: file_id = rel_path.replace('/', '_').replace('\\', '_')
VaultFileId(k) == Replace(Replace(RelPath(k), "/", "_"), "\\", "_")

\* f"{file_id}_chunk_{i}"
ChunkId(file_id, i) == file_id \o <<"_", "chunk", "_", ToString(i)>>

(***************************************************************************)
(* The pre-processing of a note.  A note is a sequence of tokens: the      *)
(* markup tokens "---", "[[", "]]", "|", "!", the whitespace " " and "\n", *)
(* and any other string, which stands for text without markup.             *)
(***************************************************************************)
\* the least j in from..Len(s) with s[j] = tok and no "\n" in s[from..j-1]
\* (`.` does not match a newline), or 0
RECURSIVE FindOnLine(_, _, _)
FindOnLine(s, tok, from) ==
    IF from > Len(s) THEN 0
    ELSE IF s[from] = tok THEN from
    ELSE IF s[from] = "\n" THEN 0
    ELSE FindOnLine(s, tok, from + 1)

\* the least j >= from at which <<"\n", "---">> starts in s, or 0
RECURSIVE FindFrontmatterEnd(_, _)
FindFrontmatterEnd(s, from) ==
    IF from + 1 > Len(s) THEN 0
    ELSE IF s[from] = "\n" /\ s[from + 1] = "---" THEN from
    ELSE FindFrontmatterEnd(s, from + 1)

\* extract_frontmatter: FRONTMATTER_PATTERN r'^---\n(.*?)\n---' with
\* re.DOTALL; when it matches, the match is removed and the rest stripped
ExtractFrontmatter(c) ==
    LET e == IF Len(c) >= 2 /\ c[1] = "---" /\ c[2] = "\n"
             THEN FindFrontmatterEnd(c, 3) ELSE 0
    IN  IF e = 0 THEN [found |-> FALSE, content |-> c]
        ELSE [found |-> TRUE, content |-> Strip(SubSeq(c, e + 2, Len(c)))]

\* extract_tags: the tags are collected, the content is returned unchanged
ExtractTags(c) == c

\* one match of WIKILINK_PATTERN r'\[\[(.*?)(?:\|(.*?))?\]\]' that starts at
\* i: the link runs to the first "|" that a "]]" follows on the line, or to
\* the first "]]"; last = 0 when there is no match
RECURSIVE WikilinkScan(_, _, _)
WikilinkScan(s, i, j) ==
    IF j > Len(s) \/ s[j] = "\n" THEN [last |-> 0, link |-> <<>>, title |-> <<>>]
    ELSE IF s[j] = "|" /\ FindOnLine(s, "]]", j + 1) # 0
         THEN [last |-> FindOnLine(s, "]]", j + 1),
               link |-> SubSeq(s, i + 1, j - 1),
               title |-> SubSeq(s, j + 1, FindOnLine(s, "]]", j + 1) - 1)]
    ELSE IF s[j] = "]]"
         THEN [last |-> j, link |-> SubSeq(s, i + 1, j - 1), title |-> <<>>]
    ELSE WikilinkScan(s, i, j + 1)

WikilinkMatch(s, i) ==
    IF s[i] = "[[" THEN WikilinkScan(s, i, i + 1)
    ELSE [last |-> 0, link |-> <<>>, title |-> <<>>]

\* replace_wikilink: title = match.group(2) if match.group(2) else link
ReplaceWikilink(m) == IF m.title # <<>> THEN m.title ELSE m.link

\* process_wikilinks: re.sub(WIKILINK_PATTERN, replace_wikilink, content)
RECURSIVE SubWikilinks(_, _)
SubWikilinks(s, i) ==
    IF i > Len(s) THEN <<>>
    ELSE LET m == WikilinkMatch(s, i)
         IN  IF m.last # 0 THEN ReplaceWikilink(m) \o SubWikilinks(s, m.last + 1)
             ELSE <<s[i]>> \o SubWikilinks(s, i + 1)

ProcessWikilinks(c) == SubWikilinks(c, 1)

\* the end of a match of IMAGE_PATTERN r'!\[\[(.*?)\]\]' that starts at i,
\* or 0
ImageMatch(s, i) ==
    IF i + 1 <= Len(s) /\ s[i] = "!" /\ s[i + 1] = "[[" THEN FindOnLine(s, "]]", i + 2)
    ELSE 0

\* replace_image: f"[Image: {image_name}]"
ReplaceImage(image_name) == <<"[Image: ">> \o image_name \o <<"]">>

\* process_images: re.sub(IMAGE_PATTERN, replace_image, content)
RECURSIVE SubImages(_, _)
SubImages(s, i) ==
    IF i > Len(s) THEN <<>>
    ELSE LET e == ImageMatch(s, i)
         IN  IF e # 0 THEN ReplaceImage(SubSeq(s, i + 2, e - 1)) \o SubImages(s, e + 1)
             ELSE <<s[i]>> \o SubImages(s, i + 1)

ProcessImages(c) == SubImages(c, 1)

\* process_code_blocks: returns its input
ProcessCodeBlocks(c) == c

\* the pre-processing of process_file, in its order: frontmatter, tags,
\* wikilinks, images, code blocks
Preprocess(t) ==
    ProcessCodeBlocks(ProcessImages(ProcessWikilinks(
        ExtractTags(ExtractFrontmatter(t).content))))

\* documents script: the try body of process_file
DocumentsFileBody(k) ==
    IF OpenRaises(k) THEN [raised |-> TRUE, docs |-> <<>>]
    ELSE LET file_id == CalculateFileHash(k)
             t == ExtractTextFromFile(k)
             cs == ChunkText(t, chunk_size, chunk_overlap)
         IN  IF t = <<>> THEN [raised |-> FALSE, docs |-> <<>>]
             ELSE [raised |-> FALSE,
                   docs |-> [i \in 1..Len(cs) |->
                               [_id |-> ChunkId(file_id, i - 1),
                                text |-> cs[i],
                                file_path |-> RelPath(k),
                                file_name |-> Candidates[k].name,
                                file_type |-> Suffix(k),
                                chunk_index |-> i - 1,
                                total_chunks |-> Len(cs)]]]

\* vault script: the try body of process_file
VaultFileBody(k) ==
    IF OpenRaises(k) \/ Utf8Raises(k) THEN [raised |-> TRUE, docs |-> <<>>]
    ELSE LET file_id == VaultFileId(k)
             cs == ChunkText(Preprocess(DecodedText(k)), chunk_size, chunk_overlap)
         IN  [raised |-> FALSE,
              docs |-> [i \in 1..Len(cs) |->
                          [_id |-> ChunkId(file_id, i - 1),
                           text |-> cs[i],
                           file_path |-> RelPath(k),
                           file_name |-> Candidates[k].name,
                           chunk_index |-> i - 1,
                           total_chunks |-> Len(cs)]]]

\* the records numbered from 1
FileBodyOneBased(k) ==
    LET body == IF pipeline = "documents" THEN DocumentsFileBody(k) ELSE VaultFileBody(k)
    IN  [raised |-> body.raised,
         docs |-> [i \in 1..Len(body.docs) |->
                     [body.docs[i] EXCEPT !.chunk_index = @ + 1]]]

FileBody(k) == IF pipeline = "documents" THEN DocumentsFileBody(k) ELSE VaultFileBody(k)

\* process_file without its except clause
ProcessFileNoCatch(k) == FileBody(k)

\* process_file: `except Exception` logs and returns []
ProcessFile(k) ==
    IF FileBody(k).raised THEN [raised |-> FALSE, docs |-> <<>>] ELSE FileBody(k)

(***************************************************************************)
(* process_directory / process_vault                                       *)
(***************************************************************************)
FILE_EXTENSIONS ==
    {".txt", ".md", ".pdf", ".docx", ".doc", ".rtf", ".html", ".htm", ".csv", ".json"}

\* the file filter of the walk
Eligible(k) ==
    IF pipeline = "documents" THEN Suffix(k) \in FILE_EXTENSIONS ELSE Suffix(k) = ".md"

\* dirs[:] left as os.walk listed it
PruneDirsNone(dirs) == dirs

\* dirs[:] = [d for d in dirs if d not in exclude_dirs]
PruneDirs(dirs) == SelectSeq(dirs, LAMBDA d : d \notin exclude_dirs)

\* what may lie at the root path
RootKinds == {"dir", "file", "missing"}

\* the root check left out
RootCheckSkipped(kind) == TRUE

\* docs_path.exists() and docs_path.is_dir()
RootCheck(kind) == kind = "dir"

\* process_directory / process_vault: `raise ValueError(...)`, which main
\* does not catch
RootCheckRaises ==
    /\ pc = "walk"
    /\ visited = <<>> /\ walk_stack = << <<>> >>
    /\ ~RootCheck(root)
    /\ pc' = "failed"
    /\ error' = "path"
    /\ UNCHANGED <<root, pipeline, fs, exclude_dirs, recreate, pdf_reader_available,
                   docx_reader_available, walk_stack, visited, all_documents,
                   collection_exists, batch_i, reported,
                   calls, index_exists, index_docs, run, runs, submitted>>

\* one iteration of `for root, dirs, files in os.walk(path)` (os.walk yields
\* nothing for a path that is no directory): the directory
\* at the head of the pending list is yielded, dirs is pruned in place, the
\* eligible files are processed in listing order, and os.walk then descends
\* into what is left of dirs
WalkStep ==
    /\ pc = "walk"
    /\ walk_stack # <<>>
    /\ RootCheck(root)
    /\ LET D == Head(walk_stack)
           kept == PruneDirs(DirsIn(D))
           files == SelectSeq(FilesIn(D), Eligible)
           res == [j \in 1..Len(files) |-> ProcessFile(files[j])]
       IN  /\ visited' = IF root = "dir" THEN Append(visited, D) ELSE visited
           /\ IF \E j \in 1..Len(res) : res[j].raised
              THEN /\ pc' = "failed"
                   /\ error' = "file"
                   /\ UNCHANGED <<all_documents, walk_stack>>
              ELSE /\ all_documents' =
                          all_documents \o Flatten([j \in 1..Len(res) |-> res[j].docs])
                   /\ walk_stack' =
                          [j \in 1..Len(kept) |-> D \o <<kept[j]>>] \o Tail(walk_stack)
                   /\ UNCHANGED <<pc, error>>
    /\ UNCHANGED <<root, pipeline, fs, exclude_dirs, recreate, pdf_reader_available,
                   docx_reader_available, collection_exists, batch_i, reported,
                   calls, index_exists, index_docs, run, runs, submitted>>

\* the walk is over and nothing was collected: main warns and returns
MainNoDocuments ==
    /\ pc = "walk"
    /\ walk_stack = <<>>
    /\ all_documents = <<>>
    /\ pc' = "done"
    /\ UNCHANGED <<root, pipeline, fs, exclude_dirs, recreate, pdf_reader_available,
                   docx_reader_available, walk_stack, visited, all_documents,
                   collection_exists, batch_i, reported, error,
                   calls, index_exists, index_docs, run, runs, submitted>>

(***************************************************************************)
(* main: synchronisation with the backend                                  *)
(***************************************************************************)
WRITE_OPS == {"delete", "create_index", "add_documents"}

Call(op, ok) == [op |-> op, ok |-> ok]

\* client.index(name).get_stats() inside try/except: any exception means
\* "does not exist"
MainProbe ==
    /\ pc = "walk"
    /\ walk_stack = <<>>
    /\ all_documents # <<>>
    /\ \E fails \in (IF index_exists THEN BOOLEAN ELSE {TRUE}) :
          /\ collection_exists' = ~fails
          /\ calls' = Append(calls, Call("get_stats", ~fails))
          /\ pc' = IF fails \/ recreate
                   THEN (IF ~fails THEN "delete" ELSE "create")
                   ELSE "upsert"
    /\ UNCHANGED <<root, pipeline, fs, exclude_dirs, recreate, pdf_reader_available,
                   docx_reader_available, walk_stack, visited, all_documents, batch_i, reported, error,
                   index_exists, index_docs, run, runs, submitted>>

\* where main is after a write call raised: nothing catches it
AfterWriteFailureSwallowed(next) == next

AfterWriteFailure(next) == "failed"

\* client.index(name).delete()
MainDelete ==
    /\ pc = "delete"
    /\ \E ok \in (IF index_exists THEN BOOLEAN ELSE {FALSE}) :
          /\ calls' = Append(calls, Call("delete", ok))
          /\ IF ok
             THEN /\ index_exists' = FALSE
                  /\ index_docs' = {}
                  /\ pc' = "create"
                  /\ UNCHANGED error
             ELSE /\ pc' = AfterWriteFailure("create")
                  /\ error' = "backend"
                  /\ UNCHANGED <<index_exists, index_docs>>
    /\ UNCHANGED <<root, pipeline, fs, exclude_dirs, recreate, pdf_reader_available,
                   docx_reader_available, walk_stack, visited, all_documents,
                   collection_exists, batch_i, reported, run, runs, submitted>>

\* client.create_index(name): the backend refuses a name that exists
MainCreate ==
    /\ pc = "create"
    /\ \E ok \in (IF index_exists THEN {FALSE} ELSE BOOLEAN) :
          /\ calls' = Append(calls, Call("create_index", ok))
          /\ IF ok
             THEN /\ index_exists' = TRUE
                  /\ index_docs' = {}
                  /\ pc' = "upsert"
                  /\ UNCHANGED error
             ELSE /\ pc' = AfterWriteFailure("upsert")
                  /\ error' = "backend"
                  /\ UNCHANGED <<index_exists, index_docs>>
    /\ UNCHANGED <<root, pipeline, fs, exclude_dirs, recreate, pdf_reader_available,
                   docx_reader_available, walk_stack, visited, all_documents,
                   collection_exists, batch_i, reported, run, runs, submitted>>

\* add_documents that replaces the content of the index by the batch
UpsertReplacing(docs, batch) == {batch[i] : i \in 1..Len(batch)}

\* the backend's add_documents: insert or replace by _id; of the records of
\* the batch that share an _id the last one stays
Upsert(docs, batch) ==
    LET sent == {batch[i]._id : i \in 1..Len(batch)}
        kept == {i \in 1..Len(batch) :
                    \A j \in (i + 1)..Len(batch) : batch[j]._id # batch[i]._id}
    IN  {d \in docs : d._id \notin sent} \cup {batch[i] : i \in kept}

\* the slice one record short
BatchShort(i) == SubSeq(all_documents, i + 1, Min(i + batch_size - 1, Len(all_documents)))

\* documents[i:i+batch_size]
Batch(i) == SubSeq(all_documents, i + 1, Min(i + batch_size, Len(all_documents)))

\* one iteration of `for i in range(0, len(documents), batch_size)`
MainUpsert ==
    /\ pc = "upsert"
    /\ batch_i < Len(all_documents)
    /\ \E ok \in (IF index_exists THEN BOOLEAN ELSE {FALSE}) :
          /\ calls' = Append(calls, Call("add_documents", ok))
          /\ IF ok
             THEN /\ index_docs' = Upsert(index_docs, Batch(batch_i))
                  /\ UNCHANGED <<pc, error>>
             ELSE /\ pc' = AfterWriteFailure("upsert")
                  /\ error' = "backend"
                  /\ UNCHANGED index_docs
          /\ batch_i' = IF ok \/ AfterWriteFailure("upsert") = "upsert"
                        THEN batch_i + batch_size ELSE batch_i
    /\ submitted' = Append(submitted, Batch(batch_i))
    /\ UNCHANGED <<root, pipeline, fs, exclude_dirs, recreate, pdf_reader_available,
                   docx_reader_available, walk_stack, visited, all_documents,
                   collection_exists, reported, index_exists, run, runs>>

\* the loop is over: "Successfully added ..." is logged
MainReport ==
    /\ pc = "upsert"
    /\ batch_i >= Len(all_documents)
    /\ reported' = TRUE
    /\ pc' = "smoke"
    /\ UNCHANGED <<root, pipeline, fs, exclude_dirs, recreate, pdf_reader_available,
                   docx_reader_available, walk_stack, visited, all_documents,
                   collection_exists, batch_i, error,
                   calls, index_exists, index_docs, run, runs, submitted>>

\* the test query client.index(name).search(q="test query", limit=1),
\* outside any try
MainSmokeTest ==
    /\ pc = "smoke"
    /\ \E ok \in (IF index_exists THEN BOOLEAN ELSE {FALSE}) :
          /\ calls' = Append(calls, Call("search", ok))
          /\ pc' = IF ok THEN "done" ELSE "failed"
          /\ error' = IF ok THEN error ELSE "backend"
    /\ UNCHANGED <<root, pipeline, fs, exclude_dirs, recreate, pdf_reader_available,
                   docx_reader_available, walk_stack, visited, all_documents,
                   collection_exists, batch_i, reported,
                   index_exists, index_docs, run, runs, submitted>>

Ids(docs) == {docs[i]._id : i \in 1..Len(docs)}

\* after a run that returned normally, the script is run again over the same
\* tree with the same arguments
NextRun ==
    /\ pc = "done"
    /\ run < MaxRuns
    /\ runs' = Append(runs, [outcome |-> pc, reported |-> reported,
                             ids |-> Ids(all_documents), docs |-> index_docs])
    /\ run' = run + 1
    /\ pc' = "walk"
    /\ walk_stack' = << <<>> >>
    /\ visited' = <<>>
    /\ all_documents' = <<>>
    /\ collection_exists' = FALSE
    /\ batch_i' = 0
    /\ reported' = FALSE
    /\ error' = "none"
    /\ calls' = <<>>
    /\ submitted' = <<>>
    /\ UNCHANGED <<root, pipeline, fs, exclude_dirs, recreate, pdf_reader_available,
                   docx_reader_available, index_exists, index_docs>>

\* a record left in the index by an earlier ingestion
StaleDoc == [_id |-> <<"stale", "_", "chunk", "_", "0">>, text |-> <<"a">>]

IngestInit ==
    /\ root \in RootKinds
    /\ fs \in IF root = "dir" THEN FileSystems
               ELSE {[k \in 1..Len(Candidates) |-> "absent"]}
    /\ pipeline \in {"documents", "vault"}
    /\ exclude_dirs \in ExcludeLists
    /\ recreate \in BOOLEAN
    /\ pdf_reader_available \in
           (IF pipeline = "documents" /\ \E k \in 1..Len(Candidates) :
                   fs[k] # "absent" /\ Candidates[k].name[Len(Candidates[k].name)] = ".pdf"
            THEN BOOLEAN ELSE {FALSE})
    /\ docx_reader_available \in
           (IF pipeline = "documents" /\ \E k \in 1..Len(Candidates) :
                   fs[k] # "absent" /\ Candidates[k].name[Len(Candidates[k].name)] = ".docx"
            THEN BOOLEAN ELSE {FALSE})
    /\ \E p \in IngestParams : chunk_size = p[1] /\ chunk_overlap = p[2]
    /\ index_exists \in BOOLEAN
    /\ index_docs = IF index_exists THEN {StaleDoc} ELSE {}
    /\ walk_stack = << <<>> >> /\ visited = <<>> /\ all_documents = <<>>
    /\ pc = "walk" /\ collection_exists = FALSE /\ batch_i = 0
    /\ reported = FALSE /\ error = "none" /\ calls = <<>>
    /\ run = 1 /\ runs = <<>> /\ submitted = <<>>
    /\ text = <<>> /\ start = 0 /\ chunks = <<>> /\ windows = <<>> /\ cpc = "idle"
    /\ SearchIdle
    /\ ClientIdle
    /\ NoteIdle
    /\ ConcIdle
    /\ WriteIdle

IngestNext ==
    /\ \/ RootCheckRaises
       \/ WalkStep
       \/ MainNoDocuments
       \/ MainProbe
       \/ MainDelete
       \/ MainCreate
       \/ MainUpsert
       \/ MainReport
       \/ MainSmokeTest
       \/ NextRun
    /\ UNCHANGED <<chunkVars, paramVars, searchVars, clientVars, noteVars,
                 concVars, writeVars>>

SpecIngest == IngestInit /\ [][IngestNext]_vars

(***************************************************************************)
(* Claims about the ingestion runs                                         *)
(***************************************************************************)
WalkOver == pc # "walk" \/ walk_stack = <<>>

\* C1: when the documents script is run twice in sequence over an unchanged
\* directory with recreate unset, the second run produces the same set of
\* record _ids as the first and leaves the collection with the same records
\* (hence the same count) as the first run left it.
C1_IdempotentReingestion ==
    (pipeline = "documents" /\ ~recreate /\ run >= 2 /\ pc = "done") =>
        /\ Ids(all_documents) = runs[run - 1].ids
        /\ index_docs = runs[run - 1].docs
        /\ Cardinality(index_docs) = Cardinality(runs[run - 1].docs)

\* C1 witness: a second run of the documents script, recreate unset, that
\* upserted several records over those of a first run that did the same
C1_Witness ==
    /\ pipeline = "documents" /\ ~recreate /\ run = 2 /\ pc = "done"
    /\ reported /\ runs[1].reported
    /\ Len(all_documents) > 1

\* C6: the records of one run have pairwise distinct _ids.
C6_DistinctIds ==
    \A i, j \in 1..Len(all_documents) :
        i # j => all_documents[i]._id # all_documents[j]._id

\* C7: a failed delete, create or upsert call is the last backend call of
\* the run: the failure leaves main, no batch is submitted after it, and
\* success is not reported.
C7_WriteFailureIsFatal ==
    \A i \in 1..Len(calls) :
        (calls[i].op \in WRITE_OPS /\ ~calls[i].ok) =>
            /\ i = Len(calls)
            /\ pc = "failed"
            /\ error = "backend"
            /\ ~reported

\* C7 witness: the first of two batches failed, the second was never sent
C7_Witness ==
    /\ Len(calls) >= 1
    /\ calls[Len(calls)] = Call("add_documents", FALSE)
    /\ batch_i + batch_size < Len(all_documents)
    /\ pc = "failed"

\* the records of the run that come from file k
DocsFrom(k) == SelectSeq(all_documents, LAMBDA d : d.file_path = RelPath(k))

\* no directory on the way to file k is excluded
Reached(k) == \A j \in 1..Len(Candidates[k].dir) : Candidates[k].dir[j] \notin exclude_dirs

\* C8: a file whose processing raises contributes no record and does not
\* end the walk; every other eligible file contributes exactly the records
\* it yields on its own.
C8_FileFailureIsolated ==
    /\ error # "file"
    /\ WalkOver =>
          \A k \in 1..Len(Candidates) :
              (Present(k) /\ Eligible(k) /\ Reached(k)) =>
                  DocsFrom(k) = IF FileBody(k).raised THEN <<>> ELSE FileBody(k).docs

\* C8 witness: the walk ended after a file raised, with records of another
C8_Witness ==
    /\ WalkOver
    /\ all_documents # <<>>
    /\ \E k \in 1..Len(Candidates) :
          Present(k) /\ Eligible(k) /\ Reached(k) /\ FileBody(k).raised

\* the path (as tokens) lies below a directory named in exclude_dirs
HasExcludedAncestor(path) ==
    \E j \in 1..(Len(path) - 1) : path[j + 1] = "/" /\ path[j] \in exclude_dirs

\* C9: the walk never yields a directory that lies in or below an excluded
\* directory, and no record comes from a file below one, at any depth.
C9_PrunedTraversal ==
    /\ \A i \in 1..Len(visited) : \A j \in 1..Len(visited[i]) :
          visited[i][j] \notin exclude_dirs
    /\ \A i \in 1..Len(all_documents) : ~HasExcludedAncestor(all_documents[i].file_path)

\* C9 witness: the walk is over, the tree holds a file two levels below the
\* root with an excluded ancestor, and other files gave records
C9_Witness ==
    /\ WalkOver
    /\ all_documents # <<>>
    /\ \E k \in 1..Len(Candidates) :
          Present(k) /\ Eligible(k) /\ ~Reached(k) /\ Len(Candidates[k].dir) = 2

\* C11: a first run with recreate set that returns leaves no record that was
\* in the collection before it; and no upsert is issued after a failed
\* existence probe unless a create_index succeeded in between.
C11_RecreateReplacesCollection ==
    /\ (run = 1 /\ pc = "done" /\ recreate) => StaleDoc \notin index_docs
    /\ \A i \in 1..Len(calls) :
          (calls[i].op = "add_documents" /\ ~calls[1].ok) =>
              \E j \in 1..(i - 1) : calls[j].op = "create_index" /\ calls[j].ok

\* the text of file k that process_file hands to chunk_text
ExtractedText(k) ==
    IF pipeline = "documents" THEN ExtractTextFromFile(k)
                              ELSE Preprocess(DecodedText(k))

\* C14: in either pipeline a file whose text is empty after extraction (and
\* pre-processing) contributes no record.
C14_EmptyTextNoRecords ==
    WalkOver =>
        \A k \in 1..Len(Candidates) :
            (/\ Present(k) /\ Eligible(k) /\ Reached(k)
             /\ ~FileBody(k).raised
             /\ ExtractedText(k) = <<>>) => DocsFrom(k) = <<>>

\* C17: when the root path is missing or is no directory, the run does
\* nothing but fail on the path: no directory is listed, no record is
\* built and no backend call is issued.
C17_BadRootFailsFirst ==
    root # "dir" =>
        /\ pc \in {"walk", "failed"}
        /\ pc = "failed" => error = "path"
        /\ visited = <<>> /\ all_documents = <<>> /\ calls = <<>>
        /\ ~reported

\* C17 witness: a run over a missing root has failed on the path
C17_Witness == root = "missing" /\ pc = "failed" /\ error = "path"

\* file k is one of those extract_text_from_file has no text for: its
\* extension is not supported, it is a PDF or DOCX whose reader is missing,
\* or it is a text file that none of the encodings decodes
Undecodable(k) ==
    \/ Suffix(k) \notin TEXT_SUFFIXES \cup {".pdf", ".docx"}
    \/ Suffix(k) = ".pdf" /\ ~pdf_reader_available
    \/ Suffix(k) = ".docx" /\ ~docx_reader_available
    \/ /\ Suffix(k) \in TEXT_SUFFIXES
       /\ \A e \in 1..Len(ENCODINGS) : DecodeRaises(ENCODINGS[e], k)

\* C19: in the directory pipeline such a file yields empty text and no
\* record, and the walk does not end on an exception of a file.
C19_DegenerateExtraction ==
    /\ error # "file"
    /\ (pipeline = "documents" /\ WalkOver) =>
          \A k \in 1..Len(Candidates) :
              (Present(k) /\ Eligible(k) /\ Reached(k) /\ Undecodable(k)) =>
                  /\ ExtractTextFromFile(k) = <<>>
                  /\ DocsFrom(k) = <<>>

\* C19 witness: a walk that met a file of an unsupported extension and a
\* PDF or DOCX file without its reader has ended
C19_Witness ==
    /\ pipeline = "documents" /\ WalkOver /\ pc # "failed"
    /\ \E k \in 1..Len(Candidates) :
          Present(k) /\ Eligible(k) /\ Reached(k) /\ Suffix(k) = ".doc"
    /\ \E k \in 1..Len(Candidates) :
          /\ Present(k) /\ Eligible(k) /\ Reached(k)
          /\ \/ Suffix(k) = ".pdf" /\ ~pdf_reader_available
             \/ Suffix(k) = ".docx" /\ ~docx_reader_available

\* the content of the index when the first batch of the run is sent
UpsertBase ==
    IF \E i \in 1..Len(calls) : calls[i].op = "create_index" /\ calls[i].ok THEN {}
    ELSE IF run = 1 THEN {StaleDoc}
    ELSE runs[run - 1].docs

\* C23: when all batches of a run have been upserted, ceil(n/50) batches
\* were sent for the n > 0 records, each of 1..50 records, their
\* concatenation in order is the record list, and the index holds what one
\* upsert of the whole list would have left.
C23_BatchesPartitionRecords ==
    reported =>
        LET n == Len(all_documents)
        IN  /\ n > 0
            /\ Len(submitted) = (n + batch_size - 1) \div batch_size
            /\ \A b \in 1..Len(submitted) :
                  Len(submitted[b]) >= 1 /\ Len(submitted[b]) <= batch_size
            /\ Flatten(submitted) = all_documents
            /\ index_docs = Upsert(UpsertBase, all_documents)

\* C23 witness: a run of more than batch_size records over a non-empty
\* index has upserted its two batches
C23_Witness ==
    /\ reported
    /\ Len(submitted) = 2
    /\ UpsertBase # {}

\* C24: a failing existence probe sends the run on to create_index, and
\* a run that has upserted all its batches does not fail.
C24_ReadFailureNeverFatal ==
    /\ (Len(calls) = 1 /\ calls[1] = Call("get_stats", FALSE)) =>
          ~collection_exists /\ pc = "create"
    /\ reported => pc # "failed"

\* C25: the records of a file carry chunk_index 0, 1, ..., n-1 in this
\* order and total_chunks = n, n being the number of its records.
C25_ChunkIndexContiguous ==
    \A k \in 1..Len(Candidates) :
        LET d == DocsFrom(k)
        IN  \A i \in 1..Len(d) :
                d[i].chunk_index = i - 1 /\ d[i].total_chunks = Len(d)

\* C25 witness: the walk is over and two files gave records, one of them
\* three or more
C25_Witness ==
    /\ WalkOver
    /\ \E k, m \in 1..Len(Candidates) :
          k # m /\ Len(DocsFrom(k)) >= 3 /\ Len(DocsFrom(m)) >= 1

DocIds(docs) == {d._id : d \in docs}

\* C30: with recreate unset, no step of a run removes an _id from the
\* index.
C30_NoRecordRemoved ==
    [][~recreate => DocIds(index_docs) \subseteq DocIds(index_docs')]_vars

\* C30 witness: a run with recreate unset has returned, having upserted
\* beside a record that an earlier ingestion left
C30_Witness ==
    /\ ~recreate /\ pc = "done" /\ reported
    /\ StaleDoc \in index_docs
    /\ Cardinality(index_docs) >= 2

(***************************************************************************)
(* MarqoClient.search                                                      *)
(***************************************************************************)
MaxVectors == 2

\* limit_val = limit if limit is not None else 10
DEFAULT_LIMIT == 10

\* the names uuid4 may give a proxy index, and the name of the target index
TempNames == {"temp_query_1", "temp_query_2"}
TARGET == "docs"

\* query vectors are told apart by a number
VectorLists == UNION {[1..n -> {1, 2}] : n \in 0..MaxVectors}

\* a limit is <<>> for None, else <<n>>
Limits == {<<>>, <<1>>}

\* backend hits: scores are hundredths (_score 1.0 is 100)
Hit1 == [_id |-> "r1", _score |-> 100, text |-> "t1", _highlights |-> "h1", file_path |-> "p1"]
Hit2 == [_id |-> "r2", _score |-> 80, text |-> "t2", _highlights |-> "h2", file_path |-> "p2"]
HitLists == {<<>>, <<Hit1>>, <<Hit1, Hit2>>}

RESERVED == {"text", "_id", "_score", "_highlights"}

BCall(op, name, ok) == [op |-> op, name |-> name, ok |-> ok]

LimitVal == IF limit = <<>> THEN DEFAULT_LIMIT ELSE limit[1]

\* 1.0 - hit.get("_score", 0.0), in hundredths
Distance(hit) == 100 - hit._score

\* the keys of a hit that are not reserved
Metadata(hit) == [k \in (DOMAIN hit) \ RESERVED |-> hit[k]]

\* a proxy document that carries the query vector
QueryDocOfVector(query_vector) == [text |-> "vector " \o ToString(query_vector)]

\* query_doc = {"text": "query_document"}
QueryDoc(query_vector) == [text |-> "query_document"]

\* what the target index answers to a search anchored on a document of the
\* given text: the ranking depends on the anchor
TargetAnswer(anchor_text) ==
    IF anchor_text = "query_document" THEN target_hits
    ELSE [i \in 1..Len(target_hits) |-> target_hits[Len(target_hits) + 1 - i]]

SearchInit ==
    /\ vectors \in VectorLists
    /\ limit \in Limits
    /\ target_hits \in HitLists
    /\ indexes \in {{TARGET}, {TARGET, "temp_query_1"}, {}}
    /\ spc = "entry" /\ qi = 0 /\ temp_collection_name = "" /\ raising = FALSE
    /\ ids = <<>> /\ distances = <<>> /\ documents = <<>> /\ metadatas = <<>>
    /\ result = NoResult
    /\ bcalls = <<>> /\ created = {} /\ qfailed = {}
    /\ IngestIdle
    /\ ClientIdle
    /\ NoteIdle
    /\ ConcIdle
    /\ WriteIdle
    /\ text = <<>> /\ start = 0 /\ chunks = <<>> /\ windows = <<>> /\ cpc = "idle"
    /\ chunk_size = 1 /\ chunk_overlap = 0

\* if not vectors or len(vectors) == 0: return None
SearchEmpty ==
    /\ spc = "entry"
    /\ vectors = <<>>
    /\ result' = NoResult
    /\ spc' = "returned"
    /\ UNCHANGED <<vectors, limit, qi, temp_collection_name, raising,
                   ids, distances, documents, metadatas,
                   indexes, target_hits, bcalls, created, qfailed>>

\* the top of one `for query_vector in vectors` iteration: the proxy name
\* is drawn
SearchIterate ==
    /\ \/ spc = "entry" /\ vectors # <<>>
       \/ spc = "next" /\ qi < Len(vectors)
    /\ qi' = qi + 1
    /\ \E n \in TempNames : temp_collection_name' = n
    /\ spc' = "create"
    /\ UNCHANGED <<vectors, limit, raising, ids, distances, documents, metadatas,
                   result, indexes, target_hits, bcalls, created, qfailed>>

\* where control goes when a call of the inner try body raises: without the
\* finally clause, straight to the outer handler
AfterStepFailureNoFinally == "except"

\* ... with it, to the finally clause first
AfterStepFailure == "cleanup"

\* self.client.create_index(temp_collection_name)
SearchCreateProxy ==
    /\ spc = "create"
    /\ \E ok \in (IF temp_collection_name \in indexes THEN {FALSE} ELSE BOOLEAN) :
          /\ bcalls' = Append(bcalls, BCall("create_index", temp_collection_name, ok))
          /\ IF ok
             THEN /\ indexes' = indexes \cup {temp_collection_name}
                  /\ created' = created \cup {temp_collection_name}
                  /\ spc' = "add"
                  /\ UNCHANGED <<raising, qfailed>>
             ELSE /\ spc' = AfterStepFailure
                  /\ raising' = TRUE
                  /\ qfailed' = qfailed \cup {qi}
                  /\ UNCHANGED <<indexes, created>>
    /\ UNCHANGED <<vectors, limit, qi, temp_collection_name,
                   ids, distances, documents, metadatas, result, target_hits>>

\* self.client.index(temp_collection_name).add_documents([query_doc], ...)
SearchAddProxyDoc ==
    /\ spc = "add"
    /\ \E ok \in (IF temp_collection_name \in indexes THEN BOOLEAN ELSE {FALSE}) :
          /\ bcalls' = Append(bcalls, BCall("add_documents", temp_collection_name, ok))
          /\ IF ok
             THEN /\ spc' = "find"
                  /\ UNCHANGED <<raising, qfailed>>
             ELSE /\ spc' = AfterStepFailure
                  /\ raising' = TRUE
                  /\ qfailed' = qfailed \cup {qi}
    /\ UNCHANGED <<vectors, limit, qi, temp_collection_name,
                   ids, distances, documents, metadatas, result,
                   indexes, target_hits, created>>

\* results = ...index(temp).search(q="query_document", limit=1);
\* query_id = results["hits"][0]["_id"]  (raises when the call fails or
\* answers no hit)
SearchFindProxyDoc ==
    /\ spc = "find"
    /\ \E ok \in (IF temp_collection_name \in indexes THEN BOOLEAN ELSE {FALSE}) :
          /\ bcalls' = Append(bcalls, BCall("search", temp_collection_name, ok))
          /\ IF ok
             THEN /\ spc' = "target"
                  /\ UNCHANGED <<raising, qfailed>>
             ELSE /\ spc' = AfterStepFailure
                  /\ raising' = TRUE
                  /\ qfailed' = qfailed \cup {qi}
    /\ UNCHANGED <<vectors, limit, qi, temp_collection_name,
                   ids, distances, documents, metadatas, result,
                   indexes, target_hits, created>>

\* the search of the target index by the proxy document, and the loop over
\* its hits
SearchTarget ==
    /\ spc = "target"
    /\ \E ok \in (IF TARGET \in indexes THEN BOOLEAN ELSE {FALSE}) :
          /\ bcalls' = Append(bcalls, BCall("search", TARGET, ok))
          /\ IF ok
             THEN LET answer == TargetAnswer(QueryDoc(vectors[qi]).text)
                      hits == SubSeq(answer, 1, Min(LimitVal, Len(answer)))
                  IN  /\ ids' = Append(ids, [i \in 1..Len(hits) |-> hits[i]._id])
                      /\ distances' =
                             Append(distances, [i \in 1..Len(hits) |-> Distance(hits[i])])
                      /\ documents' = Append(documents, [i \in 1..Len(hits) |-> hits[i].text])
                      /\ metadatas' =
                             Append(metadatas, [i \in 1..Len(hits) |-> Metadata(hits[i])])
                      /\ spc' = "cleanup"
                      /\ UNCHANGED <<raising, qfailed>>
             ELSE /\ spc' = AfterStepFailure
                  /\ raising' = TRUE
                  /\ qfailed' = qfailed \cup {qi}
                  /\ UNCHANGED <<ids, distances, documents, metadatas>>
    /\ UNCHANGED <<vectors, limit, qi, temp_collection_name, result,
                   indexes, target_hits, created>>

\* whether an exception is in flight after the delete of the finally clause
\* raised, had the clause no handler of its own
AfterDeleteFailureRaised(inflight) == TRUE

\* ... and with its `except Exception as delete_error`: log.warning only
AfterDeleteFailure(inflight) == inflight

\* finally: delete the proxy index; an error of the delete is logged only
SearchCleanup ==
    /\ spc = "cleanup"
    /\ \E ok \in (IF temp_collection_name \in indexes THEN BOOLEAN ELSE {FALSE}) :
          /\ bcalls' = Append(bcalls, BCall("delete", temp_collection_name, ok))
          /\ indexes' = IF ok THEN indexes \ {temp_collection_name} ELSE indexes
          /\ spc' = IF (IF ok THEN raising ELSE AfterDeleteFailure(raising))
                    THEN "except" ELSE "next"
    /\ UNCHANGED <<vectors, limit, qi, temp_collection_name, raising,
                   ids, distances, documents, metadatas, result,
                   target_hits, created, qfailed>>

\* a handler that returns what was collected so far
SearchExceptPartial ==
    /\ spc = "except"
    /\ result' = [is_none |-> FALSE, ids |-> ids, distances |-> distances,
                  documents |-> documents, metadatas |-> metadatas]
    /\ spc' = "returned"
    /\ UNCHANGED <<vectors, limit, qi, temp_collection_name, raising,
                   ids, distances, documents, metadatas,
                   indexes, target_hits, bcalls, created, qfailed>>

\* except Exception: log, return None
SearchExcept ==
    /\ spc = "except"
    /\ result' = NoResult
    /\ spc' = "returned"
    /\ UNCHANGED <<vectors, limit, qi, temp_collection_name, raising,
                   ids, distances, documents, metadatas,
                   indexes, target_hits, bcalls, created, qfailed>>

\* return SearchResult(ids=ids, distances=distances, ...)
SearchReturn ==
    /\ spc = "next"
    /\ qi >= Len(vectors)
    /\ result' = [is_none |-> FALSE, ids |-> ids, distances |-> distances,
                  documents |-> documents, metadatas |-> metadatas]
    /\ spc' = "returned"
    /\ UNCHANGED <<vectors, limit, qi, temp_collection_name, raising,
                   ids, distances, documents, metadatas,
                   indexes, target_hits, bcalls, created, qfailed>>

SearchNext ==
    /\ \/ SearchEmpty
       \/ SearchIterate
       \/ SearchCreateProxy
       \/ SearchAddProxyDoc
       \/ SearchFindProxyDoc
       \/ SearchTarget
       \/ SearchCleanup
       \/ SearchExcept
       \/ SearchReturn
    /\ UNCHANGED <<chunkVars, paramVars, ingestVars, clientVars, noteVars,
                 concVars, writeVars>>

SpecSearch == SearchInit /\ [][SearchNext]_vars

(***************************************************************************)
(* Claims about MarqoClient.search                                         *)
(***************************************************************************)
\* C4: a call with several query vectors returns one result list per
\* vector, an empty list for each vector whose processing failed and the
\* hits for the others.
C4_PartialFailureIsolated ==
    (spc = "returned" /\ vectors # <<>>) =>
        /\ ~result.is_none
        /\ Len(result.ids) = Len(vectors)
        /\ \A q \in 1..Len(vectors) : q \in qfailed => result.ids[q] = <<>>

\* C5 as claimed: when the call returns, no proxy index it created exists.
C5_NoProxyLeftBehind == spc = "returned" => created \cap indexes = {}

\* the last backend call that names index n
LastCallOn(n) ==
    LET on == {i \in 1..Len(bcalls) : bcalls[i].name = n}
    IN  bcalls[CHOOSE i \in on : \A j \in on : j <= i]

\* C5 as amended: on every exit path the last call on each proxy index the
\* call created is a delete, and such an index still exists when the call
\* returns only if that delete failed.
C5_CleanupAlwaysIssued ==
    spc = "returned" =>
        \A n \in created :
            /\ LastCallOn(n).op = "delete"
            /\ n \in indexes => ~LastCallOn(n).ok

\* C5 witness: the call returned None after a step on a proxy index it had
\* created raised, and the proxy index is gone
C5_Witness ==
    /\ spc = "returned"
    /\ result.is_none
    /\ created # {}
    /\ created \cap indexes = {}
    /\ \E i \in 1..Len(bcalls) : bcalls[i].op = "search" /\ ~bcalls[i].ok

\* C16: what the call returns is decided by the steps other than the
\* deletes: None if one of them failed, else one list per vector holding
\* the hits of the target search, whether or not a delete failed.
C16_DeleteFailureNotMasking ==
    (spc = "returned" /\ vectors # <<>>) =>
        LET stepFailed == \E i \in 1..Len(bcalls) :
                              bcalls[i].op # "delete" /\ ~bcalls[i].ok
            n == Min(LimitVal, Len(target_hits))
        IN  IF stepFailed
            THEN result.is_none
            ELSE /\ ~result.is_none
                 /\ Len(result.ids) = Len(vectors)
                 /\ \A q \in 1..Len(vectors) :
                       result.ids[q] = [i \in 1..n |-> target_hits[i]._id]

\* C16 witness: the call returned hits although a delete of a proxy index
\* failed
C16_Witness ==
    /\ spc = "returned"
    /\ ~result.is_none
    /\ \E q \in 1..Len(result.ids) : result.ids[q] # <<>>
    /\ \E i \in 1..Len(bcalls) : bcalls[i].op = "delete" /\ ~bcalls[i].ok

C27_ResultShape ==
    /\ (spc = "returned" /\ ~result.is_none) =>
          /\ Len(result.ids) = Len(vectors)
          /\ Len(result.distances) = Len(vectors)
          /\ Len(result.documents) = Len(vectors)
          /\ Len(result.metadatas) = Len(vectors)
          /\ \A q \in 1..Len(vectors) :
                LET n == Len(result.ids[q])
                IN  /\ n <= LimitVal
                    /\ Len(result.distances[q]) = n
                    /\ Len(result.documents[q]) = n
                    /\ Len(result.metadatas[q]) = n
                    /\ \A i \in 1..n :
                          \E h \in 1..Len(target_hits) :
                              /\ result.ids[q][i] = target_hits[h]._id
                              /\ result.distances[q][i] = Distance(target_hits[h])
                              /\ result.documents[q][i] = target_hits[h].text
                              /\ result.metadatas[q][i] = Metadata(target_hits[h])
    /\ (spc = "returned" /\ vectors = <<>>) => result.is_none /\ bcalls = <<>>

\* C27 witness: a call with two vectors returned a result whose lists hold
\* a hit each
C27_Witness ==
    /\ spc = "returned" /\ ~result.is_none
    /\ Len(vectors) = 2
    /\ Len(result.metadatas) = 2 /\ Len(result.metadatas[2]) >= 1

(***************************************************************************)
(* The operations of MarqoClient (retrieval/vector/dbs/marqo.py) and of    *)
(* MarqoLoader (vectordb/marqo_loader.py), each one atomic, against a      *)
(* backend whose calls may raise.                                          *)
(***************************************************************************)
Names == {"docs", "notes"}

\* the ids the backend gives to documents sent without one
GeneratedIds == {"g1"}

\* the order in which a search of the backend answers its hits
HitOrder == <<"x", "y", "g1">>

\* items as MarqoClient.insert takes them; id <<>> is a missing id
ItemX == [text |-> "tx", metadata |-> [source |-> "s1"], id |-> <<"x">>]
ItemY == [text |-> "ty", metadata |-> [source |-> "s2"], id |-> <<"y">>]
ItemNoId == [text |-> "tz", metadata |-> [source |-> "s1"], id |-> <<>>]
\* an item without id whose metadata has keys named like the reserved fields
ItemReservedKeys == [text |-> "tz", metadata |-> [text |-> "meta", _id |-> "x"],
                     id |-> <<>>]
ItemLists == {<<ItemX>>, <<ItemX, ItemY>>, <<ItemNoId>>, <<ItemReservedKeys>>}

\* arguments as MarqoLoader.add_texts takes them
TextBatches ==
    { [texts |-> <<"tx", "ty">>,
       metadatas |-> <<[source |-> "s1"], [source |-> "s2"]>>,
       ids |-> <<"x", "y">>],
      [texts |-> <<"tx", "ty">>, metadatas |-> <<[source |-> "s1"]>>,
       ids |-> <<"x">>],
      [texts |-> <<"tz">>, metadatas |-> <<>>, ids |-> <<>>],
      [texts |-> <<"tz">>, metadatas |-> <<[text |-> "meta", _id |-> "x"]>>,
       ids |-> <<>>] }

IdLists == {<<"x">>, <<"x", "y">>}

\* a filter dict: empty, or {"source": value}
Filters == {<<>>, <<"s1">>}

\* a limit argument of MarqoClient.query and get: <<>> is None
ClientLimits == {<<>>, <<1>>}

\* the document MarqoClient.insert builds of an item: text first, then the
\* metadata keys, then _id when the item has an id
InsertDocument(item) ==
    LET withMeta == item.metadata @@ [text |-> item.text]
    IN  IF item.id # <<>> THEN [_id |-> item.id[1]] @@ withMeta ELSE withMeta

\* the document MarqoLoader.add_texts builds of texts[i]
AddTextsDocument(b, i) ==
    LET withMeta == IF i <= Len(b.metadatas)
                    THEN b.metadatas[i] @@ [text |-> b.texts[i]]
                    ELSE [text |-> b.texts[i]]
    IN  IF i <= Len(b.ids) THEN [_id |-> b.ids[i]] @@ withMeta ELSE withMeta

\* texts[i] with the id supplied for it, <<>> where ids is too short
TextItems(b) ==
    [i \in 1..Len(b.texts) |->
        [text |-> b.texts[i],
         id |-> IF i <= Len(b.ids) THEN <<b.ids[i]>> ELSE <<>>]]

\* the backend stores a document under its _id, or under an id it generates
Stored(doc, g) == IF "_id" \in DOMAIN doc THEN doc ELSE [_id |-> g] @@ doc

\* the backend's add_documents on the documents of one index
AddDocuments(old, docs, g) ==
    Upsert(old, [i \in 1..Len(docs) |-> Stored(docs[i], g)])

\* the hits a search answers: the documents passing the filter, at most
\* `lim` of them
Hits(docs, filter, lim) ==
    LET Passes(d) == filter = <<>> \/ ("source" \in DOMAIN d /\ d.source = filter[1])
        Found(i) == \E d \in docs : d._id = i /\ Passes(d)
        all == SelectSeq(HitOrder, Found)
    IN  SubSeq(all, 1, Min(lim, Len(all)))

Ret(kind, idseq) == [kind |-> kind, ids |-> idseq]

\* what a call left behind: whether the operation ended on a backend call
\* that raised, whether it raised to its caller, and what it returned
Outcome(client, op, failed, raised, ret) ==
    [client |-> client, op |-> op, backend_failed |-> failed,
     raised |-> raised, ret |-> ret]

Exists(name) == name \in DOMAIN backend

WithIndex(name, docs) ==
    [n \in (DOMAIN backend) \cup {name} |-> IF n = name THEN docs ELSE backend[n]]

WithoutIndex(name) == [n \in (DOMAIN backend) \ {name} |-> backend[n]]

\* the ids the backend may generate for the documents of `docs` that have
\* none: one not yet in the index
FreeIds(name, docs) ==
    IF Exists(name) /\ \E i \in 1..Len(docs) : "_id" \notin DOMAIN docs[i]
    THEN {g \in GeneratedIds : \A d \in backend[name] : d._id # g}
    ELSE GeneratedIds

ClientInit ==
    /\ \E S \in SUBSET Names : backend = [n \in S |-> {}]
    /\ last = NoCall
    /\ NoteIdle
    /\ ConcIdle
    /\ WriteIdle
    /\ IngestIdle
    /\ SearchIdle
    /\ text = <<>> /\ start = 0 /\ chunks = <<>> /\ windows = <<>> /\ cpc = "idle"
    /\ chunk_size = 1 /\ chunk_overlap = 0

\* MarqoClient.has_collection
MarqoClient_has_collection ==
    \E name \in Names, up \in BOOLEAN :
        LET ok == up /\ Exists(name)
        IN  /\ last' = Outcome("MarqoClient", "has_collection", ~ok, FALSE,
                               Ret(IF ok THEN "True" ELSE "False", <<>>))
            /\ UNCHANGED backend

\* MarqoClient.create_collection
MarqoClient_create_collection ==
    \E name \in Names, up \in BOOLEAN :
        LET ok == up /\ ~Exists(name)
        IN  /\ backend' = IF ok THEN WithIndex(name, {}) ELSE backend
            /\ last' = Outcome("MarqoClient", "create_collection", ~ok, ~ok,
                               Ret(IF ok THEN "None" ELSE "raise", <<>>))

\* MarqoClient.delete_collection
MarqoClient_delete_collection ==
    \E name \in Names, up \in BOOLEAN :
        LET ok == up /\ Exists(name)
        IN  /\ backend' = IF ok THEN WithoutIndex(name) ELSE backend
            /\ last' = Outcome("MarqoClient", "delete_collection", ~ok, ~ok,
                               Ret(IF ok THEN "None" ELSE "raise", <<>>))

\* MarqoClient.insert
MarqoClient_insert ==
    \E name \in Names, items \in ItemLists, up \in BOOLEAN :
        LET ok == up /\ Exists(name)
            docs == [i \in 1..Len(items) |-> InsertDocument(items[i])]
        IN  \E g \in FreeIds(name, docs) :
            /\ backend' = IF ok
                          THEN WithIndex(name, AddDocuments(backend[name], docs, g))
                          ELSE backend
            /\ last' = Outcome("MarqoClient", "insert", ~ok, ~ok,
                               Ret(IF ok THEN "None" ELSE "raise", <<>>))
                        @@ [items |-> items, sent |-> docs]

\* MarqoClient.delete
MarqoClient_delete ==
    \E name \in Names, del \in IdLists, up \in BOOLEAN :
        LET ok == up /\ Exists(name)
            gone == {del[i] : i \in 1..Len(del)}
        IN  /\ backend' = IF ok
                          THEN WithIndex(name, {d \in backend[name] : d._id \notin gone})
                          ELSE backend
            /\ last' = Outcome("MarqoClient", "delete", ~ok, ~ok,
                               Ret(IF ok THEN "None" ELSE "raise", <<>>))

\* the body MarqoClient.query and MarqoClient.get share: the existence
\* probe, the lexical search, None when there is no hit
LexicalRead(op, name, filter, lim, up1, up2) ==
    LET probe == up1 /\ Exists(name)
        ok == probe /\ up2
        hits == IF ok
                THEN Hits(backend[name], filter,
                          IF lim = <<>> THEN DEFAULT_LIMIT ELSE lim[1])
                ELSE <<>>
    IN  /\ last' = Outcome("MarqoClient", op, ~ok, FALSE,
                           IF hits = <<>> THEN Ret("None", <<>>)
                                          ELSE Ret("GetResult", hits))
        /\ UNCHANGED backend

\* MarqoClient.query
MarqoClient_query ==
    \E name \in Names, filter \in Filters, lim \in ClientLimits,
       up1 \in BOOLEAN, up2 \in BOOLEAN :
        LexicalRead("query", name, filter, lim, up1, up2)

\* MarqoClient.get
MarqoClient_get ==
    \E name \in Names, lim \in ClientLimits, up1 \in BOOLEAN, up2 \in BOOLEAN :
        LexicalRead("get", name, <<>>, lim, up1, up2)

\* MarqoLoader.create_collection: probe; if the index is there and recreate
\* is set, delete and create; an exception of any of the three leads to the
\* create_index of the handler; only an exception of that one is raised
MarqoLoader_create_collection ==
    \E name \in Names, rec \in BOOLEAN,
       up1 \in BOOLEAN, up2 \in BOOLEAN, up3 \in BOOLEAN, up4 \in BOOLEAN :
        LET probe == up1 /\ Exists(name)
            deleted == probe /\ rec /\ up2
            first == deleted /\ up3
            handler == ~probe \/ (rec /\ ~first)
            existsThen == IF deleted THEN FALSE ELSE Exists(name)
            second == handler /\ up4 /\ ~existsThen
            failed == handler /\ ~second
        IN  /\ backend' = IF first \/ second THEN WithIndex(name, {})
                          ELSE IF deleted THEN WithoutIndex(name)
                          ELSE backend
            /\ last' = Outcome("MarqoLoader", "create_collection", failed, failed,
                               Ret(IF failed THEN "raise" ELSE "None", <<>>))

\* MarqoLoader.delete_collection
MarqoLoader_delete_collection ==
    \E name \in Names, up \in BOOLEAN :
        LET ok == up /\ Exists(name)
        IN  /\ backend' = IF ok THEN WithoutIndex(name) ELSE backend
            /\ last' = Outcome("MarqoLoader", "delete_collection", ~ok, ~ok,
                               Ret(IF ok THEN "None" ELSE "raise", <<>>))

\* MarqoLoader.add_texts: the returned ids are the _id of each document
\* built, "unknown" where it has none
MarqoLoader_add_texts ==
    \E name \in Names, b \in TextBatches, up \in BOOLEAN :
        LET ok == up /\ Exists(name)
            docs == [i \in 1..Len(b.texts) |-> AddTextsDocument(b, i)]
            result_ids == [i \in 1..Len(docs) |->
                              IF "_id" \in DOMAIN docs[i] THEN docs[i]._id
                                                          ELSE "unknown"]
        IN  \E g \in FreeIds(name, docs) :
            /\ backend' = IF ok
                          THEN WithIndex(name, AddDocuments(backend[name], docs, g))
                          ELSE backend
            /\ last' = Outcome("MarqoLoader", "add_texts", ~ok, ~ok,
                               IF ok THEN Ret("list", result_ids)
                                     ELSE Ret("raise", <<>>))
                        @@ [items |-> TextItems(b), sent |-> docs]

\* where an exception of MarqoLoader.search ends: log.error, then raise
LoaderSearchFailure == [raised |-> TRUE, ret |-> Ret("raise", <<>>)]

\* MarqoLoader.search
MarqoLoader_search ==
    \E name \in Names, filter \in Filters, lim \in {1, DEFAULT_LIMIT}, up \in BOOLEAN :
        LET ok == up /\ Exists(name)
            hits == IF ok THEN Hits(backend[name], filter, lim) ELSE <<>>
        IN  /\ last' = IF ok
                       THEN Outcome("MarqoLoader", "search", FALSE, FALSE,
                                    IF hits = <<>> THEN Ret("empty", <<>>)
                                                   ELSE Ret("list", hits))
                       ELSE Outcome("MarqoLoader", "search", TRUE,
                                    LoaderSearchFailure.raised,
                                    LoaderSearchFailure.ret)
            /\ UNCHANGED backend

\* MarqoLoader.delete_texts
MarqoLoader_delete_texts ==
    \E name \in Names, del \in IdLists, up \in BOOLEAN :
        LET ok == up /\ Exists(name)
            gone == {del[i] : i \in 1..Len(del)}
        IN  /\ backend' = IF ok
                          THEN WithIndex(name, {d \in backend[name] : d._id \notin gone})
                          ELSE backend
            /\ last' = Outcome("MarqoLoader", "delete_texts", ~ok, ~ok,
                               Ret(IF ok THEN "None" ELSE "raise", <<>>))

ClientNext ==
    /\ \/ MarqoClient_has_collection
       \/ MarqoClient_create_collection
       \/ MarqoClient_delete_collection
       \/ MarqoClient_insert
       \/ MarqoClient_delete
       \/ MarqoClient_query
       \/ MarqoClient_get
       \/ MarqoLoader_create_collection
       \/ MarqoLoader_delete_collection
       \/ MarqoLoader_add_texts
       \/ MarqoLoader_search
       \/ MarqoLoader_delete_texts
    /\ UNCHANGED <<chunkVars, paramVars, ingestVars, searchVars, noteVars,
                 concVars, writeVars>>

SpecClient == ClientInit /\ [][ClientNext]_vars

(***************************************************************************)
(* Claims about the client operations                                      *)
(***************************************************************************)
READ_OPS == {"has_collection", "query", "get", "search"}

\* C10: a read operation (has_collection, query, get, the loader's search)
\* that ended on a failed backend call has returned False, None or an empty
\* result and has not raised; a write operation that ended on a failed
\* backend call has raised.
C10_ReadsDegradeWritesRaise ==
    last.backend_failed =>
        IF last.op \in READ_OPS
        THEN ~last.raised /\ last.ret.kind \in {"False", "None", "empty"}
        ELSE last.raised

\* C15: every record MarqoClient.insert or MarqoLoader.add_texts sends has
\* the item's text as its text field and the supplied id as its _id field,
\* or no _id field when no id was supplied, whatever the metadata holds.
C15_ReservedFieldsKept ==
    last.op \in {"insert", "add_texts"} =>
        \A i \in 1..Len(last.sent) :
            /\ last.sent[i].text = last.items[i].text
            /\ IF last.items[i].id # <<>>
               THEN "_id" \in DOMAIN last.sent[i]
                    /\ last.sent[i]._id = last.items[i].id[1]
               ELSE "_id" \notin DOMAIN last.sent[i]

\* C22: when MarqoLoader.add_texts returns, it returns one identifier per
\* text, and the i-th is the _id of a stored document that holds the text
\* sent for texts[i], also where no id was supplied for it.
C22_ReturnedIdsAreStoredIds ==
    (last.client = "MarqoLoader" /\ last.op = "add_texts" /\ ~last.raised) =>
        /\ Len(last.ret.ids) = Len(last.items)
        /\ \A i \in 1..Len(last.items) :
              \E n \in DOMAIN backend : \E d \in backend[n] :
                  d._id = last.ret.ids[i] /\ d.text = last.sent[i].text

(***************************************************************************)
(* The pre-processing steps of process_file (vault script), one by one     *)
(***************************************************************************)
MaxNoteLen == 5

\* text without markup, as tokens
Words == {"t", "l"}

\* the tokens a note body is drawn from
NoteTokens == {"[[", "]]", "|", "!"} \cup Words

\* a frontmatter block and the line end after it
FrontBlock == <<"---", "\n", "k: v", "\n", "---", "\n">>

Notes ==
    UNION {{p \o b : b \in [1..n -> NoteTokens]} :
              p \in {<<>>, FrontBlock}, n \in 0..MaxNoteLen}

NoteInit ==
    /\ note \in Notes
    /\ content = note
    /\ npc = "frontmatter"
    /\ ConcIdle
    /\ WriteIdle
    /\ IngestIdle
    /\ SearchIdle
    /\ ClientIdle
    /\ text = <<>> /\ start = 0 /\ chunks = <<>> /\ windows = <<>> /\ cpc = "idle"
    /\ chunk_size = 1 /\ chunk_overlap = 0

\* frontmatter, content = extract_frontmatter(content)
NoteFrontmatter ==
    /\ npc = "frontmatter"
    /\ content' = ExtractFrontmatter(content).content
    /\ npc' = "tags"
    /\ UNCHANGED note

\* tags, content = extract_tags(content)
NoteTags ==
    /\ npc = "tags"
    /\ content' = ExtractTags(content)
    /\ npc' = "wikilinks"
    /\ UNCHANGED note

\* content = process_wikilinks(content, vault_path)
NoteWikilinks ==
    /\ npc = "wikilinks"
    /\ content' = ProcessWikilinks(content)
    /\ npc' = "images"
    /\ UNCHANGED note

\* content = process_images(content)
NoteImages ==
    /\ npc = "images"
    /\ content' = ProcessImages(content)
    /\ npc' = "code_blocks"
    /\ UNCHANGED note

\* content = process_code_blocks(content); content is then chunked
NoteCodeBlocks ==
    /\ npc = "code_blocks"
    /\ content' = ProcessCodeBlocks(content)
    /\ npc' = "done"
    /\ UNCHANGED note

NoteNext ==
    /\ \/ NoteFrontmatter
       \/ NoteTags
       \/ NoteWikilinks
       \/ NoteImages
       \/ NoteCodeBlocks
    /\ UNCHANGED <<chunkVars, paramVars, ingestVars, searchVars, clientVars,
                 concVars, writeVars>>

SpecNote == NoteInit /\ [][NoteNext]_vars

(***************************************************************************)
(* Claims about the pre-processing                                         *)
(***************************************************************************)
\* the note below its frontmatter block
NoteBody ==
    IF Len(note) >= Len(FrontBlock) /\ SubSeq(note, 1, Len(FrontBlock)) = FrontBlock
    THEN SubSeq(note, Len(FrontBlock) + 1, Len(note))
    ELSE note

MarkupFree(s) == \A i \in 1..Len(s) : s[i] \in Words

\* s[i..] is exactly the tokens `toks` followed by text without markup
MarkupAt(s, i, toks) ==
    /\ i + Len(toks) - 1 <= Len(s)
    /\ SubSeq(s, i, i + Len(toks) - 1) = toks
    /\ MarkupFree(SubSeq(s, i + Len(toks), Len(s)))

\* C18: in the text that is chunked, an embedded image ![[name]] of the
\* note body stands as the placeholder [Image: name], a wiki link
\* [[target]] as target and a wiki link [[target|label]] as label (notes
\* whose body is text, one such reference, text).
C18_ImagesAndLinksRewritten ==
    npc = "done" =>
        \A i \in 1..Len(NoteBody) : \A w \in Words, v \in Words :
            LET b == NoteBody
                before == SubSeq(b, 1, i - 1)
                After(n) == SubSeq(b, i + n, Len(b))
            IN  MarkupFree(before) =>
                    /\ MarkupAt(b, i, <<"!", "[[", w, "]]">>) =>
                          content = before \o <<"[Image: ", w, "]">> \o After(4)
                    /\ MarkupAt(b, i, <<"[[", w, "]]">>) =>
                          content = before \o <<w>> \o After(3)
                    /\ MarkupAt(b, i, <<"[[", w, "|", v, "]]">>) =>
                          content = before \o <<v>> \o After(5)

(***************************************************************************)
(* Concurrent MarqoClient.search calls against one backend, each with one  *)
(* query vector; a step of a call is one backend call                      *)
(***************************************************************************)
MaxCalls == 2

Calls == 1..MaxCalls

ConcInit ==
    /\ tpc = [c \in Calls |-> "entry"]
    /\ tname = [c \in Calls |-> ""]
    /\ tcreated = [c \in Calls |-> FALSE]
    /\ traising = [c \in Calls |-> FALSE]
    /\ tresult = [c \in Calls |-> "pending"]
    /\ shared \in {{TARGET}, {}}
    /\ IngestIdle
    /\ SearchIdle
    /\ ClientIdle
    /\ NoteIdle
    /\ WriteIdle
    /\ text = <<>> /\ start = 0 /\ chunks = <<>> /\ windows = <<>> /\ cpc = "idle"
    /\ chunk_size = 1 /\ chunk_overlap = 0

\* temp_collection_name = f"temp_query_{str(uuid.uuid4())[:8]}": eight hex
\* digits of a random uuid, which two calls may draw alike
CallIterate(c) ==
    /\ tpc[c] = "entry"
    /\ \E n \in TempNames : tname' = [tname EXCEPT ![c] = n]
    /\ tpc' = [tpc EXCEPT ![c] = "create"]
    /\ UNCHANGED <<tcreated, traising, tresult, shared>>

\* a step of call c that is a backend call: on success go to `next`, on an
\* exception to the finally clause
CallStep(c, ok, next) ==
    /\ tpc' = [tpc EXCEPT ![c] = IF ok THEN next ELSE AfterStepFailure]
    /\ traising' = [traising EXCEPT ![c] = ~ok]

\* self.client.create_index(temp_collection_name)
CallCreateProxy(c) ==
    /\ tpc[c] = "create"
    /\ \E ok \in (IF tname[c] \in shared THEN {FALSE} ELSE BOOLEAN) :
          /\ CallStep(c, ok, "add")
          /\ shared' = IF ok THEN shared \cup {tname[c]} ELSE shared
          /\ tcreated' = [tcreated EXCEPT ![c] = ok]
    /\ UNCHANGED <<tname, tresult>>

\* self.client.index(temp_collection_name).add_documents([query_doc], ...)
CallAddProxyDoc(c) ==
    /\ tpc[c] = "add"
    /\ \E ok \in (IF tname[c] \in shared THEN BOOLEAN ELSE {FALSE}) :
          CallStep(c, ok, "find")
    /\ UNCHANGED <<tname, tcreated, tresult, shared>>

\* self.client.index(temp_collection_name).search(q="query_document", limit=1)
CallFindProxyDoc(c) ==
    /\ tpc[c] = "find"
    /\ \E ok \in (IF tname[c] \in shared THEN BOOLEAN ELSE {FALSE}) :
          CallStep(c, ok, "target")
    /\ UNCHANGED <<tname, tcreated, tresult, shared>>

\* the search of the target index with the proxy document as the anchor:
\* the backend needs both indexes
CallTarget(c) ==
    /\ tpc[c] = "target"
    /\ \E ok \in (IF TARGET \in shared /\ tname[c] \in shared
                  THEN BOOLEAN ELSE {FALSE}) :
          CallStep(c, ok, "cleanup")
    /\ UNCHANGED <<tname, tcreated, tresult, shared>>

\* finally: self.client.index(temp_collection_name).delete(), whatever the
\* call did before; then return (SearchResult, or None from the handler)
CallCleanup(c) ==
    /\ tpc[c] = "cleanup"
    /\ \E ok \in (IF tname[c] \in shared THEN BOOLEAN ELSE {FALSE}) :
          /\ shared' = IF ok THEN shared \ {tname[c]} ELSE shared
          /\ tresult' = [tresult EXCEPT ![c] =
                            IF (IF ok THEN traising[c]
                                      ELSE AfterDeleteFailure(traising[c]))
                            THEN "None" ELSE "SearchResult"]
    /\ tpc' = [tpc EXCEPT ![c] = "returned"]
    /\ UNCHANGED <<tname, tcreated, traising>>

ConcNext ==
    /\ \E c \in Calls :
          \/ CallIterate(c)
          \/ CallCreateProxy(c)
          \/ CallAddProxyDoc(c)
          \/ CallFindProxyDoc(c)
          \/ CallTarget(c)
          \/ CallCleanup(c)
    /\ UNCHANGED <<chunkVars, paramVars, ingestVars, searchVars, clientVars,
                   noteVars, writeVars>>

SpecConcurrent == ConcInit /\ [][ConcNext]_vars

(***************************************************************************)
(* Claims about concurrent searches                                        *)
(***************************************************************************)
\* C20: a call that has created its proxy index and has not yet finished
\* using it (it is about to add the proxy document, to read its id, or to
\* search the target with it) still finds the proxy index in the backend:
\* no other call has deleted it.
C20_NoInterference ==
    \A c \in Calls :
        (tcreated[c] /\ tpc[c] \in {"add", "find", "target"}) => tname[c] \in shared

(***************************************************************************)
(* Concurrent ingestion runs, recreate unset, on one collection that       *)
(* exists: main from the existence probe on.  A step of a run is one       *)
(* backend call; the backend applies each add_documents call atomically.   *)
(***************************************************************************)
MaxWriters == 2

Writers == 1..MaxWriters

\* the record lists process_directory / process_vault may have returned:
\* batch_size + 1 records of one file; the same with another content under
\* the same path-derived ids; the same with the last record under the _id
\* of the first; and a single record
RecordId(i) == <<"f", "_", "chunk", "_", ToString(i)>>

RecordsV1 == [i \in 1..(batch_size + 1) |-> [_id |-> RecordId(i - 1), text |-> <<"a">>]]
RecordsV2 == [i \in 1..(batch_size + 1) |-> [_id |-> RecordId(i - 1), text |-> <<"b">>]]
RecordsDup ==
    [i \in 1..(batch_size + 1) |->
        IF i <= batch_size THEN RecordsV1[i] ELSE [_id |-> RecordId(0), text |-> <<"b">>]]
RecordsOne == <<[_id |-> RecordId(0), text |-> <<"a">>]>>

RecordLists == {RecordsV1, RecordsV2, RecordsDup, RecordsOne}

WriteInit ==
    /\ w_documents \in [Writers -> RecordLists]
    /\ w_pc = [w \in Writers |-> "probe"]
    /\ w_batch_i = [w \in Writers |-> 0]
    /\ coll_docs = {StaleDoc}
    /\ coll_log = <<>>
    /\ IngestIdle
    /\ SearchIdle
    /\ ClientIdle
    /\ NoteIdle
    /\ ConcIdle
    /\ text = <<>> /\ start = 0 /\ chunks = <<>> /\ windows = <<>> /\ cpc = "idle"
    /\ chunk_size = 1 /\ chunk_overlap = 0

\* get_stats inside try/except; recreate is unset, so only a failing probe
\* leads to create_index
WriterProbe(w) ==
    /\ w_pc[w] = "probe"
    /\ \E fails \in BOOLEAN :
          w_pc' = [w_pc EXCEPT ![w] = IF fails THEN "create" ELSE "upsert"]
    /\ UNCHANGED <<w_documents, w_batch_i, coll_docs, coll_log>>

\* client.create_index(name): the backend refuses the name, which exists
WriterCreate(w) ==
    /\ w_pc[w] = "create"
    /\ w_pc' = [w_pc EXCEPT ![w] = AfterWriteFailure("upsert")]
    /\ UNCHANGED <<w_documents, w_batch_i, coll_docs, coll_log>>

\* documents[i:i+batch_size] of run w
WriterBatch(w) ==
    SubSeq(w_documents[w], w_batch_i[w] + 1,
           Min(w_batch_i[w] + batch_size, Len(w_documents[w])))

\* one iteration of the batch loop of run w
WriterUpsert(w) ==
    /\ w_pc[w] = "upsert"
    /\ w_batch_i[w] < Len(w_documents[w])
    /\ \E ok \in BOOLEAN :
          IF ok
          THEN /\ coll_docs' = Upsert(coll_docs, WriterBatch(w))
               /\ coll_log' = Append(coll_log, WriterBatch(w))
               /\ w_batch_i' = [w_batch_i EXCEPT ![w] = @ + batch_size]
               /\ UNCHANGED w_pc
          ELSE /\ w_pc' = [w_pc EXCEPT ![w] = AfterWriteFailure("upsert")]
               /\ UNCHANGED <<w_batch_i, coll_docs, coll_log>>
    /\ UNCHANGED w_documents

\* the loop of run w is over
WriterReport(w) ==
    /\ w_pc[w] = "upsert"
    /\ w_batch_i[w] >= Len(w_documents[w])
    /\ w_pc' = [w_pc EXCEPT ![w] = "smoke"]
    /\ UNCHANGED <<w_documents, w_batch_i, coll_docs, coll_log>>

\* the test query of run w
WriterSmokeTest(w) ==
    /\ w_pc[w] = "smoke"
    /\ \E ok \in BOOLEAN :
          w_pc' = [w_pc EXCEPT ![w] = IF ok THEN "done" ELSE "failed"]
    /\ UNCHANGED <<w_documents, w_batch_i, coll_docs, coll_log>>

WriteNext ==
    /\ \E w \in Writers :
          \/ WriterProbe(w)
          \/ WriterCreate(w)
          \/ WriterUpsert(w)
          \/ WriterReport(w)
          \/ WriterSmokeTest(w)
    /\ UNCHANGED <<chunkVars, paramVars, ingestVars, searchVars, clientVars,
                   noteVars, concVars>>

SpecWrite == WriteInit /\ [][WriteNext]_vars

(***************************************************************************)
(* Claims about concurrent ingestion runs                                  *)
(***************************************************************************)
\* the upsert loop of run w has sent all its batches
AllUpserted(w) == w_batch_i[w] >= Len(w_documents[w])

\* C21: at every point of every interleaving the collection holds one
\* record per _id, which is the record written last under that _id (or the
\* record that was there, for an _id no run wrote); and when all runs have
\* upserted all batches of one and the same record list, the collection is
\* what a single run of that list leaves.
C21_LastWriteWins ==
    LET written == Flatten(coll_log)
        at(id) == {i \in 1..Len(written) : written[i]._id = id}
    IN  /\ \A d, e \in coll_docs : d._id = e._id => d = e
        /\ DocIds(coll_docs) = {StaleDoc._id} \cup Ids(written)
        /\ \A d \in coll_docs :
              IF at(d._id) = {} THEN d = StaleDoc
              ELSE d = written[Last(at(d._id))]
        /\ ((\A w \in Writers : AllUpserted(w) /\ w_documents[w] = w_documents[1])
               => coll_docs = Upsert({StaleDoc}, w_documents[1]))

\* C21 witness: two runs of one list of more than batch_size records, two
\* of which share an _id, have upserted all their batches, the first batch
\* of the one between the batches of the other
C21_Witness ==
    /\ \A w \in Writers : AllUpserted(w) /\ w_documents[w] = RecordsDup
    /\ Len(coll_log) = 4
    /\ coll_log[2] = coll_log[1]

====
